---- MODULE Spec2Model ----
(***************************************************************************)
(* Model of skills/backup-export/scripts/backup.py: the archive lifecycle  *)
(* collect -> hash -> pack -> rotate, and verify / restore on an archive.  *)
(*                                                                         *)
(* A path is a sequence of segments (<<"memory", "goals.md">> is           *)
(* memory/goals.md).  The file system is `files` (regular files, with      *)
(* their bytes and modification time) and `dirs` (directories).  File      *)
(* bytes are abstracted to a number in 1..MaxData.                         *)
(***************************************************************************)
EXTENDS Integers, Sequences, FiniteSets, TLC

VARIABLES files, dirs, archives, now, last, edits

vars == <<files, dirs, archives, now, last, edits>>

(***************************************************************************)
(* Bounds of the model.                                                    *)
(***************************************************************************)
MaxData == 2
MaxEdits == 1
MaxIOFail == 1
MaxCats == 2
MaxArchives == 3
MaxKeep == 2
MaxMtime == 3
MaxClock == 4

(***************************************************************************)
(* Sequence and path helpers.                                              *)
(***************************************************************************)
Front(s) == SubSeq(s, 1, Len(s) - 1)

Last(s) == s[Len(s)]

Range(s) == {s[i] : i \in 1..Len(s)}

IsPrefix(d, p) == Len(d) < Len(p) /\ SubSeq(p, 1, Len(d)) = d

RelativeTo(p, d) == SubSeq(p, Len(d) + 1, Len(p))

Ancestors(p) == {SubSeq(p, 1, k) : k \in 0..(Len(p) - 1)}

RECURSIVE SetToSeq(_)
SetToSeq(S) ==
    IF S = {} THEN <<>>
    ELSE LET x == CHOOSE y \in S : TRUE
         IN  <<x>> \o SetToSeq(S \ {x})

RECURSIVE Concat(_)
Concat(ss) == IF ss = <<>> THEN <<>> ELSE Head(ss) \o Concat(Tail(ss))

(***************************************************************************)
(* The roots the program works with.                                       *)
(***************************************************************************)
NoPath == <<>>

Proj == <<"proj">>

AltBase == <<"alt">>

OpenclawHome == <<"home", ".openclaw">>

AgentsRoot == OpenclawHome \o <<"agents">>

Sess1 == AgentsRoot \o <<"a1", "sessions">>

OutDir == <<"out">>

resolve_base_dir == Proj

(***************************************************************************)
(* File system queries, on a file map F and a directory set D.             *)
(***************************************************************************)
IsFile(F, p) == p \in DOMAIN F

IsDir(D, p) == p \in D

\* the entries of directory d, in the order the file system lists them
ListDir(F, D, d) ==
    SetToSeq({p \in (DOMAIN F) \cup D : Len(p) = Len(d) + 1 /\ IsPrefix(d, p)})

\* every entry below directory d (Path.rglob("*"))
RGlob(F, D, d) ==
    SetToSeq({p \in (DOMAIN F) \cup D : IsPrefix(d, p)})

Suffix(name) ==
    CASE name \in {"goals.md", "2025-01-01-note.md"} -> ".md"
      [] name \in {"s1.jsonl"} -> ".jsonl"
      [] name \in {"config.json", "settings.json", "sessions.json"} -> ".json"
      [] name = "openclaw.mjs" -> ".mjs"
      [] name = "draft.txt" -> ".txt"
      [] OTHER -> ""

GlobMatch(pattern, name) ==
    IF pattern = "*.md" THEN Suffix(name) = ".md" ELSE name = pattern

Glob(F, D, parent, pattern) ==
    SelectSeq(ListDir(F, D, parent), LAMBDA p : GlobMatch(pattern, Last(p)))

\* mkdir(parents=True, exist_ok=True)
MkdirP(D, d) == D \cup Ancestors(d) \cup {d}

(***************************************************************************)
(* Category registry.                                                      *)
(***************************************************************************)
CategoryOrder ==
    <<"memory", "people", "knowledge", "goals", "decisions", "playbooks",
      "threads", "config", "sessions">>

CATEGORIES ==
    [memory    |-> << <<"memory", "*.md">> >>,
     people    |-> << <<"memory", "people", "*.md">> >>,
     knowledge |-> << <<"memory", "knowledge", "*.md">> >>,
     goals     |-> << <<"memory", "goals.md">> >>,
     decisions |-> << <<"memory", "decisions", "*.md">> >>,
     playbooks |-> << <<"memory", "playbooks", "*.md">> >>,
     threads   |-> << <<"memory", "threads", "*.md">> >>,
     config    |-> << >>,
     sessions  |-> << >>]

MODE_CATEGORIES ==
    [full     |-> CategoryOrder,
     memory   |-> <<"memory", "people", "knowledge", "goals", "decisions",
                    "playbooks", "threads">>,
     sessions |-> <<"sessions">>]

(***************************************************************************)
(* resolve_sessions_dir: the sessions directory of the first agent         *)
(* directory that has one, NoPath when there is none.                      *)
(***************************************************************************)
resolve_sessions_dir(D) ==
    IF ~IsDir(D, AgentsRoot) THEN NoPath
    ELSE LET agents == SelectSeq(ListDir([x \in {} |-> 0], D, AgentsRoot),
                                 LAMBDA a : IsDir(D, a \o <<"sessions">>))
         IN  IF agents = <<>> THEN NoPath ELSE Head(agents) \o <<"sessions">>

(***************************************************************************)
(* collect_files.  A candidate is [abs, arc]; NoSince is since = None.     *)
(***************************************************************************)
NoSince == -1

\* a wrong variant of SessionCandidates: the cutoff applies to every file
SessionCandidatesAllDated(F, D, since) ==
    LET sd == resolve_sessions_dir(D)
    IN  IF sd = NoPath \/ ~IsDir(D, sd) THEN <<>>
        ELSE LET keep(f) ==
                     /\ IsFile(F, f)
                     /\ ~(since # NoSince /\ F[f].mtime < since)
                 kept == SelectSeq(RGlob(F, D, sd), keep)
             IN  [i \in 1..Len(kept) |->
                     [abs |-> kept[i],
                      arc |-> <<"sessions">> \o RelativeTo(kept[i], sd)]]

SessionCandidates(F, D, since) ==
    LET sd == resolve_sessions_dir(D)
    IN  IF sd = NoPath \/ ~IsDir(D, sd) THEN <<>>
        ELSE LET keep(f) ==
                     /\ IsFile(F, f)
                     /\ ~(since # NoSince /\ Suffix(Last(f)) = ".jsonl"
                            /\ F[f].mtime < since)
                 kept == SelectSeq(RGlob(F, D, sd), keep)
             IN  [i \in 1..Len(kept) |->
                     [abs |-> kept[i],
                      arc |-> <<"sessions">> \o RelativeTo(kept[i], sd)]]

\* a wrong variant of ConfigCandidates: the archive path is the bare file name
ConfigCandidatesBare(F, base) ==
    LET config_candidates == <<OpenclawHome \o <<"config.json">>,
                               OpenclawHome \o <<"settings.json">>,
                               base \o <<"openclaw.mjs">> >>
        present == SelectSeq(config_candidates, LAMBDA c : IsFile(F, c))
    IN  [i \in 1..Len(present) |->
            [abs |-> present[i], arc |-> <<Last(present[i])>>]]

ConfigCandidates(F, base) ==
    LET config_candidates == <<OpenclawHome \o <<"config.json">>,
                               OpenclawHome \o <<"settings.json">>,
                               base \o <<"openclaw.mjs">> >>
        present == SelectSeq(config_candidates, LAMBDA c : IsFile(F, c))
    IN  [i \in 1..Len(present) |->
            [abs |-> present[i], arc |-> <<"config", Last(present[i])>>]]

\* a wrong variant of PatternCandidates: paths are taken relative to the
\* memory directory instead of the base directory
PatternCandidatesUnderMemory(F, D, base, pattern) ==
    LET parent == base \o Front(pattern)
    IN  IF ~IsDir(D, parent) THEN <<>>
        ELSE LET hits == SelectSeq(Glob(F, D, parent, Last(pattern)),
                                   LAMBDA f : IsFile(F, f))
             IN  [i \in 1..Len(hits) |->
                     [abs |-> hits[i],
                      arc |-> Tail(RelativeTo(hits[i], base))]]

PatternCandidates(F, D, base, pattern) ==
    LET parent == base \o Front(pattern)
        glob_part == Last(pattern)
    IN  IF ~IsDir(D, parent) THEN <<>>
        ELSE LET hits == SelectSeq(Glob(F, D, parent, glob_part),
                                   LAMBDA f : IsFile(F, f))
             IN  [i \in 1..Len(hits) |->
                     [abs |-> hits[i], arc |-> RelativeTo(hits[i], base)]]

\* what one category offers, before deduplication
CategoryCandidates(F, D, base, cat, since) ==
    IF cat = "sessions" THEN SessionCandidates(F, D, since)
    ELSE IF cat = "config" THEN ConfigCandidates(F, base)
    ELSE IF cat \notin DOMAIN CATEGORIES THEN <<>>
    ELSE Concat([i \in 1..Len(CATEGORIES[cat]) |->
                    PatternCandidates(F, D, base, CATEGORIES[cat][i])])

\* a wrong variant of AddCandidate: appends without consulting seen
AddUnchecked(acc, c) ==
    [files |-> Append(acc.files, c), seen |-> acc.seen \cup {c.arc}]

\* lines 152-154, 167-169, 184-186: append unless the path was seen
AddCandidate(acc, c) ==
    IF c.arc \notin acc.seen
    THEN [files |-> Append(acc.files, c), seen |-> acc.seen \cup {c.arc}]
    ELSE acc

RECURSIVE AddCandidates(_, _)
AddCandidates(acc, cs) ==
    IF cs = <<>> THEN acc
    ELSE AddCandidates(AddCandidate(acc, Head(cs)), Tail(cs))

RECURSIVE CollectLoop(_, _, _, _, _, _)
CollectLoop(F, D, base, cats, since, acc) ==
    IF cats = <<>> THEN acc
    ELSE CollectLoop(F, D, base, Tail(cats), since,
             AddCandidates(acc, CategoryCandidates(F, D, base, Head(cats), since)))

collect_files(F, D, base, cats, since) ==
    CollectLoop(F, D, base, cats, since, [files |-> <<>>, seen |-> {}]).files

(***************************************************************************)
(* Digests.  Sha256 stands for hashlib.sha256(...).hexdigest(): a function *)
(* of the bytes alone, free of collisions on the model's contents, and     *)
(* never equal to the "ERROR" sentinel (ERROR is 0, a digest is positive). *)
(***************************************************************************)
ERROR == 0

Sha256(d) == 1 + ((d * 7919) % 65521)

(***************************************************************************)
(* compute_manifest: arc path -> digest, or ERROR when the read fails.     *)
(* ioHash is the set of source paths whose read raises OSError.            *)
(***************************************************************************)
\* a wrong variant of HashEntry: a failed read yields a digest, not ERROR
HashNoSentinel(F, c, ioHash) ==
    IF c.abs \in ioHash \/ ~IsFile(F, c.abs) THEN Sha256(0)
    ELSE Sha256(F[c.abs].data)

\* lines 195-202: one file's entry
HashEntry(F, c, ioHash) ==
    IF c.abs \in ioHash \/ ~IsFile(F, c.abs) THEN ERROR
    ELSE Sha256(F[c.abs].data)

RECURSIVE ManifestLoop(_, _, _, _)
ManifestLoop(F, fs, ioHash, manifest) ==
    IF fs = <<>> THEN manifest
    ELSE LET c == Head(fs)
             v == HashEntry(F, c, ioHash)
         IN  ManifestLoop(F, Tail(fs), ioHash,
                 [k \in (DOMAIN manifest) \cup {c.arc} |->
                     IF k = c.arc THEN v ELSE manifest[k]])

compute_manifest(F, fs, ioHash) ==
    ManifestLoop(F, fs, ioHash, [k \in {} |-> ERROR])

(***************************************************************************)
(* JSON.  json.dumps(..., sort_keys=True) writes the object's pairs in key *)
(* order; json.loads reads the pairs back, a later pair of the same key    *)
(* replacing an earlier one.  SortedArcs is the string order of the arc    *)
(* paths the collector can produce.                                        *)
(***************************************************************************)
SortedArcs ==
    << <<"config", "config.json">>, <<"config", "openclaw.mjs">>,
       <<"config", "settings.json">>,
       <<"memory", "decisions", "2025-01-01-note.md">>,
       <<"memory", "goals.md">>,
       <<"sessions", "s1.jsonl">>, <<"sessions", "sessions.json">> >>

json_dumps(obj) ==
    LET known == SelectSeq(SortedArcs, LAMBDA k : k \in DOMAIN obj)
        keys  == known \o SetToSeq((DOMAIN obj) \ Range(SortedArcs))
    IN  [i \in 1..Len(keys) |-> <<keys[i], obj[keys[i]]>>]

RECURSIVE LoadPairs(_, _)
LoadPairs(pairs, obj) ==
    IF pairs = <<>> THEN obj
    ELSE LET k == Head(pairs)[1]
         IN  LoadPairs(Tail(pairs),
                 [x \in (DOMAIN obj) \cup {k} |->
                     IF x = k THEN Head(pairs)[2] ELSE obj[x]])

json_loads(pairs) == LoadPairs(pairs, [k \in {} |-> ERROR])

(***************************************************************************)
(* Archives.  A member is [name, isfile, data, json]: data is the bytes of *)
(* a payload member, json the pairs of a synthetic JSON member.  The       *)
(* output directory maps a file name <<prefix, stamp, suffix>> to          *)
(* [members, mtime] and to what the run that wrote it saw (src, ioHash,    *)
(* ioAdd; changed names the members altered since).                        *)
(***************************************************************************)
ManifestName == <<"MANIFEST.json">>

MetaName == <<"BACKUP_META.json">>

\* a wrong variant of ArchiveName: the name carries no timestamp
ArchiveNameFixed(t) == <<"openclaw-backup-", 0, ".tar.gz">>

ArchiveName(t) == <<"openclaw-backup-", t, ".tar.gz">>

MatchesBackupPattern(n) == n[1] = "openclaw-backup-" /\ n[3] = ".tar.gz"

Payload(name, d) == [name |-> name, isfile |-> TRUE, data |-> d, json |-> <<>>]

Synthetic(name, pairs) ==
    [name |-> name, isfile |-> TRUE, data |-> 0, json |-> pairs]

Label(mode, cats) == IF mode = "selective" THEN <<mode, cats>> ELSE <<mode>>

\* a wrong variant of MetaCategories: one entry per collected file
MetaCategoriesPerFile(fs) == [i \in 1..Len(fs) |-> Head(fs[i].arc)]

\* lines 245-247: list(set(arc_path.split("/")[0] ...)); the order of the list
\* is the set's iteration order, which no property reads
MetaCategories(fs) == SetToSeq({Head(fs[i].arc) : i \in 1..Len(fs)})

\* lines 227-230: tar.add of one file; OSError leaves the member out
AddMember(F, c, ioAdd) ==
    IF c.abs \in ioAdd \/ ~IsFile(F, c.abs) THEN <<>>
    ELSE <<Payload(c.arc, F[c.abs].data)>>

\* a wrong variant of create_backup: an archive already at that path is
\* left as it is
CreateBackupKeepingExisting(F, D, A, fs, label, t, ioHash, ioAdd) ==
    LET manifest == compute_manifest(F, fs, ioHash)
        payload  == Concat([i \in 1..Len(fs) |-> AddMember(F, fs[i], ioAdd)])
        meta     == << <<"created", t>>, <<"label", label>>,
                       <<"file_count", Len(fs)>>,
                       <<"categories", MetaCategories(fs)>> >>
        members  == payload \o <<Synthetic(ManifestName, json_dumps(manifest)),
                                 Synthetic(MetaName, meta)>>
        rec      == [container |-> "tar", members |-> members, mtime |-> t,
                     src |-> [i \in 1..Len(fs) |->
                                 [abs |-> fs[i].abs, arc |-> fs[i].arc,
                                  data |-> IF IsFile(F, fs[i].abs)
                                           THEN F[fs[i].abs].data ELSE 0]],
                     ioHash |-> ioHash \cap {fs[i].abs : i \in 1..Len(fs)},
                     ioAdd |-> ioAdd \cap {fs[i].abs : i \in 1..Len(fs)},
                     changed |-> {}]
        name     == ArchiveName(t)
    IN  [dirs |-> MkdirP(D, OutDir),
         archives |-> [n \in (DOMAIN A) \cup {name} |->
                          IF n \in DOMAIN A THEN A[n] ELSE rec],
         name |-> name]

\* lines 212-260; t is datetime.now(), to the second.  The files are read
\* twice: by the hashing pass (line 219), which sees the file system Fh, and
\* by the packing pass (line 225-230), which sees Fp
PackBackup(Fh, Fp, D, A, fs, label, t, ioHash, ioAdd) ==
    LET manifest == compute_manifest(Fh, fs, ioHash)
        payload  == Concat([i \in 1..Len(fs) |-> AddMember(Fp, fs[i], ioAdd)])
        meta     == << <<"created", t>>, <<"label", label>>,
                       <<"file_count", Len(fs)>>,
                       <<"categories", MetaCategories(fs)>> >>
        members  == payload \o <<Synthetic(ManifestName, json_dumps(manifest)),
                                 Synthetic(MetaName, meta)>>
        rec      == [container |-> "tar", members |-> members, mtime |-> t,
                     src |-> [i \in 1..Len(fs) |->
                                 [abs |-> fs[i].abs, arc |-> fs[i].arc,
                                  data |-> IF IsFile(Fh, fs[i].abs)
                                           THEN Fh[fs[i].abs].data ELSE 0]],
                     ioHash |-> ioHash \cap {fs[i].abs : i \in 1..Len(fs)},
                     ioAdd |-> ioAdd \cap {fs[i].abs : i \in 1..Len(fs)},
                     changed |-> {}]
        name     == ArchiveName(t)
    IN  [dirs |-> MkdirP(D, OutDir),
         archives |-> [n \in (DOMAIN A) \cup {name} |->
                          IF n = name THEN rec ELSE A[n]],
         name |-> name]

\* a run during which no other process writes
create_backup(F, D, A, fs, label, t, ioHash, ioAdd) ==
    PackBackup(F, F, D, A, fs, label, t, ioHash, ioAdd)

(***************************************************************************)
(* rotate_backups.  delFail is the set of names whose unlink raises        *)
(* OSError.  sorted(..., reverse=True) is stable: archives of equal mtime  *)
(* keep the order the directory listing gave them.                         *)
(***************************************************************************)
RECURSIVE InsertByMtime(_, _, _)
InsertByMtime(A, sorted, n) ==
    IF sorted = <<>> THEN <<n>>
    ELSE IF A[Head(sorted)].mtime >= A[n].mtime
         THEN <<Head(sorted)>> \o InsertByMtime(A, Tail(sorted), n)
         ELSE <<n>> \o sorted

RECURSIVE SortByMtimeDesc(_, _, _)
SortByMtimeDesc(A, todo, sorted) ==
    IF todo = <<>> THEN sorted
    ELSE SortByMtimeDesc(A, Tail(todo), InsertByMtime(A, sorted, Head(todo)))

SortedArchives(A) ==
    SortByMtimeDesc(A,
        SetToSeq({n \in DOMAIN A : MatchesBackupPattern(n)}), <<>>)

\* a wrong variant of Doomed: keeps the oldest archives, not the newest
DoomedKeepingOldest(A, keep) ==
    LET archives_ == SortedArchives(A)
    IN  IF Len(archives_) <= keep THEN {}
        ELSE Range(SubSeq(archives_, 1, Len(archives_) - keep))

\* lines 268-278: archives[keep:], the ones rotation tries to delete
Doomed(A, keep) ==
    LET archives_ == SortedArchives(A)
    IN  IF Len(archives_) <= keep THEN {}
        ELSE Range(SubSeq(archives_, keep + 1, Len(archives_)))

\* a wrong variant of rotate_backups: no early return for keep <= 0, so the
\* slice archives[keep:] decides (all of them for 0, the last -keep otherwise)
RotateUnguarded(A, keep, delFail) ==
    LET archives_ == SortedArchives(A)
        from      == IF keep >= 0 THEN keep + 1
                     ELSE IF Len(archives_) + keep < 0 THEN 1
                     ELSE Len(archives_) + keep + 1
        removed   == Range(SubSeq(archives_, from, Len(archives_))) \ delFail
    IN  [n \in (DOMAIN A) \ removed |-> A[n]]

\* a wrong variant of rotate_backups: the first failing unlink ends the loop
RECURSIVE UnlinkUntilFailure(_, _)
UnlinkUntilFailure(old, delFail) ==
    IF old = <<>> \/ Head(old) \in delFail THEN {}
    ELSE {Head(old)} \cup UnlinkUntilFailure(Tail(old), delFail)

RotateAbortingOnFailure(A, keep, delFail) ==
    IF keep <= 0 THEN A
    ELSE LET archives_ == SortedArchives(A)
             removed   == IF Len(archives_) <= keep THEN {}
                          ELSE UnlinkUntilFailure(
                                   SubSeq(archives_, keep + 1, Len(archives_)),
                                   delFail)
         IN  [n \in (DOMAIN A) \ removed |-> A[n]]

\* lines 263-286
rotate_backups(A, keep, delFail) ==
    IF keep <= 0 THEN A
    ELSE LET removed == Doomed(A, keep) \ delFail
         IN  [n \in (DOMAIN A) \ removed |-> A[n]]

\* line 277-286: the count the run reports
RemovedCount(A, keep, delFail) ==
    IF keep <= 0 THEN 0 ELSE Cardinality(Doomed(A, keep) \ delFail)

(***************************************************************************)
(* verify_archive.  The result carries what the run prints: the number of  *)
(* files OK (checked) and of MISMATCH and MISSING lines.                   *)
(*                                                                         *)
(* An archive's container is "tar" (a readable gzip tar), "garbage" (bytes *)
(* on which tarfile.open or getnames raises tarfile.ReadError, a TarError) *)
(* or "truncated" (a gzip stream that ends early: reading it raises        *)
(* EOFError, which is no TarError, so the except clause of lines 353 and   *)
(* 416 does not catch it and the process ends with a traceback, status 1). *)
(***************************************************************************)
HasMember(members, name) == \E i \in 1..Len(members) : members[i].name = name

\* tarfile.getmember: the last member of that name
GetMember(members, name) ==
    members[CHOOSE i \in 1..Len(members) :
                /\ members[i].name = name
                /\ \A j \in (i + 1)..Len(members) : members[j].name # name]

\* a wrong variant of Classify: counts an "ERROR" entry instead of skipping it
ClassifySentinelOk(members, arc_path, expected_hash) ==
    IF expected_hash = ERROR THEN "OK"
    ELSE IF ~HasMember(members, arc_path) THEN "MISSING"
    ELSE IF ~GetMember(members, arc_path).isfile THEN "MISSING"
    ELSE IF Sha256(GetMember(members, arc_path).data) # expected_hash
         THEN "MISMATCH"
    ELSE "OK"

\* a wrong variant of Classify: never compares digests
ClassifyBlind(members, arc_path, expected_hash) ==
    IF expected_hash = ERROR THEN "SKIP"
    ELSE IF ~HasMember(members, arc_path) THEN "MISSING"
    ELSE "OK"

\* lines 320-344: one manifest entry
Classify(members, arc_path, expected_hash) ==
    IF expected_hash = ERROR THEN "SKIP"
    ELSE IF ~HasMember(members, arc_path) THEN "MISSING"
    ELSE IF ~GetMember(members, arc_path).isfile THEN "MISSING"
    ELSE IF Sha256(GetMember(members, arc_path).data) # expected_hash
         THEN "MISMATCH"
    ELSE "OK"

RECURSIVE VerifyLoop(_, _, _)
VerifyLoop(members, items, acc) ==
    IF items = <<>> THEN acc
    ELSE LET c == Classify(members, Head(items)[1], Head(items)[2])
         IN  VerifyLoop(members, Tail(items),
                 [checked  |-> acc.checked + (IF c = "OK" THEN 1 ELSE 0),
                  mismatch |-> acc.mismatch + (IF c = "MISMATCH" THEN 1 ELSE 0),
                  missing  |-> acc.missing + (IF c = "MISSING" THEN 1 ELSE 0)])

VerifyResult(ok, outcome, acc) ==
    [ok |-> ok, outcome |-> outcome, checked |-> acc.checked,
     mismatch |-> acc.mismatch, missing |-> acc.missing]

NoCounts == [checked |-> 0, mismatch |-> 0, missing |-> 0]

\* a wrong variant of verify_archive: an archive without manifest fails
VerifyDemandingManifest(A, n) ==
    IF n \notin DOMAIN A THEN VerifyResult(FALSE, "not found", NoCounts)
    ELSE IF ~HasMember(A[n].members, ManifestName)
    THEN VerifyResult(FALSE, "unverified", NoCounts)
    ELSE VerifyResult(TRUE, "checked", NoCounts)

\* a wrong variant of verify_archive: a payload member the manifest does not
\* list counts as an error
VerifyEveryMember(A, n) ==
    IF n \notin DOMAIN A THEN VerifyResult(FALSE, "not found", NoCounts)
    ELSE IF A[n].container = "garbage"
    THEN VerifyResult(FALSE, "corrupt", NoCounts)
    ELSE IF A[n].container = "truncated"
    THEN VerifyResult(FALSE, "crash", NoCounts)
    ELSE LET members == A[n].members
         IN  IF ~HasMember(members, ManifestName)
             THEN VerifyResult(TRUE, "unverified", NoCounts)
             ELSE IF ~GetMember(members, ManifestName).isfile
             THEN VerifyResult(FALSE, "manifest unreadable", NoCounts)
             ELSE LET manifest == json_loads(GetMember(members, ManifestName).json)
                      items == [i \in 1..Len(SetToSeq(DOMAIN manifest)) |->
                                  <<SetToSeq(DOMAIN manifest)[i],
                                    manifest[SetToSeq(DOMAIN manifest)[i]]>>]
                      acc == VerifyLoop(members, items, NoCounts)
                      unlisted == Cardinality(
                          {i \in 1..Len(members) :
                              /\ members[i].name \notin {ManifestName, MetaName}
                              /\ members[i].name \notin DOMAIN manifest})
                      errors == acc.mismatch + acc.missing + unlisted
                  IN  VerifyResult(errors = 0, "checked", acc)

verify_archive(A, n) ==
    IF n \notin DOMAIN A THEN VerifyResult(FALSE, "not found", NoCounts)
    ELSE IF A[n].container = "garbage"
    THEN VerifyResult(FALSE, "corrupt", NoCounts)
    ELSE IF A[n].container = "truncated"
    THEN VerifyResult(FALSE, "crash", NoCounts)
    ELSE LET members == A[n].members
         IN  IF ~HasMember(members, ManifestName)
             THEN VerifyResult(TRUE, "unverified", NoCounts)
             ELSE IF ~GetMember(members, ManifestName).isfile
             THEN VerifyResult(FALSE, "manifest unreadable", NoCounts)
             ELSE LET manifest == json_loads(GetMember(members, ManifestName).json)
                      items == [i \in 1..Len(SetToSeq(DOMAIN manifest)) |->
                                  <<SetToSeq(DOMAIN manifest)[i],
                                    manifest[SetToSeq(DOMAIN manifest)[i]]>>]
                      acc == VerifyLoop(members, items, NoCounts)
                      errors == acc.mismatch + acc.missing
                  IN  VerifyResult(errors = 0, "checked", acc)

(***************************************************************************)
(* restore_archive.  The loop threads the file system through the members; *)
(* an OSError from mkdir or open is not caught (only tarfile.TarError is), *)
(* so it ends the process: outcome "crash", exit status 1.                 *)
(***************************************************************************)
IsSynthetic(name) == name \in {ManifestName, MetaName}

StartsWith(name, prefix) == Len(name) >= 2 /\ Head(name) = prefix

\* a wrong variant of RestoreTarget: session members without a sessions
\* directory land under the project root
RestoreTargetNoSkip(D, name) ==
    IF StartsWith(name, "sessions")
    THEN IF resolve_sessions_dir(D) # NoPath
         THEN resolve_sessions_dir(D) \o Tail(name)
         ELSE resolve_base_dir \o name
    ELSE IF StartsWith(name, "config")
    THEN OpenclawHome \o Tail(name)
    ELSE resolve_base_dir \o name

\* a wrong variant of RestoreTarget: config members land under the project root
RestoreTargetFlat(D, name) ==
    IF StartsWith(name, "sessions")
    THEN IF resolve_sessions_dir(D) # NoPath
         THEN resolve_sessions_dir(D) \o Tail(name)
         ELSE NoPath
    ELSE resolve_base_dir \o name

\* a member name that begins with "/" has RootMark as its first segment
RootMark == "/"

\* pathlib's base / name: an absolute name replaces the base
Join(base, name) ==
    IF name # <<>> /\ Head(name) = RootMark THEN Tail(name) ELSE base \o name

\* the file the operating system reaches through a path: each ".." segment
\* steps to the parent directory (the root is its own parent)
RECURSIVE Resolve(_, _)
Resolve(p, acc) ==
    IF p = <<>> THEN acc
    ELSE IF Head(p) = ".."
    THEN Resolve(Tail(p), IF acc = <<>> THEN acc ELSE Front(acc))
    ELSE Resolve(Tail(p), acc \o <<Head(p)>>)

\* lines 390-402: where a member goes; NoPath when it is skipped
RestoreTarget(D, name) ==
    IF StartsWith(name, "sessions")
    THEN IF resolve_sessions_dir(D) # NoPath
         THEN Resolve(Join(resolve_sessions_dir(D), Tail(name)), <<>>)
         ELSE NoPath
    ELSE IF StartsWith(name, "config")
    THEN Resolve(Join(OpenclawHome, Tail(name)), <<>>)
    ELSE Resolve(Join(resolve_base_dir, name), <<>>)

\* a wrong variant of WriteMember: an existing target file is left alone
WriteMemberKeep(st, target, m, t) ==
    IF IsFile(st.files, target) THEN st
    ELSE [st EXCEPT
             !.files = [p \in (DOMAIN st.files) \cup {target} |->
                           IF p = target
                           THEN [data |-> m.data, mtime |-> t]
                           ELSE st.files[p]],
             !.restored = st.restored + 1]

\* lines 407-411: the member's bytes replace whatever the target held
WriteMember(st, target, m, t) ==
    [st EXCEPT
        !.files = [p \in (DOMAIN st.files) \cup {target} |->
                      IF p = target
                      THEN [data |-> m.data, mtime |-> t]
                      ELSE st.files[p]],
        !.restored = st.restored + 1]

RECURSIVE RestoreLoop(_, _, _)
RestoreLoop(members, t, st) ==
    IF members = <<>> \/ st.crashed THEN st
    ELSE LET m == Head(members)
             target == RestoreTarget(st.dirs, m.name)
         IN  IF IsSynthetic(m.name) \/ target = NoPath
             THEN RestoreLoop(Tail(members), t, st)
             ELSE IF \E a \in Ancestors(target) : IsFile(st.files, a)
             THEN [st EXCEPT !.crashed = TRUE]
             ELSE IF ~m.isfile
             THEN RestoreLoop(Tail(members), t,
                      [st EXCEPT !.dirs = MkdirP(st.dirs, Front(target))])
             ELSE IF IsDir(st.dirs, target)
             THEN [st EXCEPT !.crashed = TRUE,
                             !.dirs = MkdirP(st.dirs, Front(target))]
             ELSE RestoreLoop(Tail(members), t,
                      WriteMember(
                          [st EXCEPT !.dirs = MkdirP(st.dirs, Front(target))],
                          target, m, t))

restore_archive(F, D, A, n, t) ==
    LET st0 == [files |-> F, dirs |-> D, restored |-> 0, crashed |-> FALSE]
    IN  IF n \notin DOMAIN A
        THEN st0 @@ [ok |-> FALSE, outcome |-> "not found"]
        ELSE IF A[n].container = "garbage"
        THEN st0 @@ [ok |-> FALSE, outcome |-> "archive error"]
        ELSE IF A[n].container = "truncated"
        THEN [st0 EXCEPT !.crashed = TRUE] @@ [ok |-> FALSE, outcome |-> "crash"]
        ELSE LET st == RestoreLoop(A[n].members, t, st0)
             IN  st @@ [ok |-> ~st.crashed,
                        outcome |-> IF st.crashed THEN "crash" ELSE "restored"]

(***************************************************************************)
(* main, for a backup invocation (neither --verify nor --restore given).   *)
(* args is [mode, include, since, keep, base]: include is the --include    *)
(* value split at commas (<<>> when absent or empty), since the --since    *)
(* text ("" when absent), base the --base-dir value (NoPath when absent).  *)
(***************************************************************************)
Strip(tok) == IF tok = " goals" THEN "goals" ELSE tok

\* datetime.strptime(text, "%Y-%m-%d"): the dates it accepts, as clock values
ValidDates == [x \in {"2025-01-02"} |-> 1]

ParsesAsDate(text) == text \in DOMAIN ValidDates

ConfigError(args) ==
    \/ args.mode = "selective" /\ args.include = <<>>
    \/ /\ args.mode = "selective"
       /\ \E i \in 1..Len(args.include) :
              Strip(args.include[i]) \notin DOMAIN CATEGORIES
    \/ args.since # "" /\ ~ParsesAsDate(args.since)

\* a wrong variant of Categories: every mode but selective backs up everything
CategoriesAllFull(args) ==
    IF args.mode = "selective"
    THEN [i \in 1..Len(args.include) |-> Strip(args.include[i])]
    ELSE MODE_CATEGORIES["full"]

Categories(args) ==
    IF args.mode = "selective"
    THEN [i \in 1..Len(args.include) |-> Strip(args.include[i])]
    ELSE MODE_CATEGORIES[args.mode]

Exit(rc, outcome, D, A, collected, arch) ==
    [rc |-> rc, outcome |-> outcome, dirs |-> D, archives |-> A,
     collected |-> collected, arch |-> arch]

NoArch == <<"", 0, "">>

Completed(F, D, A, t, args, fs, cats, ioHash, ioAdd, delFail) ==
    LET cb == create_backup(F, D, A, fs, Label(args.mode, cats), t, ioHash, ioAdd)
    IN  Exit(0, "complete", cb.dirs,
             IF args.keep > 0
             THEN rotate_backups(cb.archives, args.keep, delFail)
             ELSE cb.archives,
             fs, cb.name)

\* a wrong variant of BackupMain: creates the output directory before validating
BackupMkdirFirst(F, D, A, t, args, ioHash, ioAdd, delFail) ==
    IF ConfigError(args)
    THEN Exit(1, "config error", MkdirP(D, OutDir), A, <<>>, NoArch)
    ELSE LET base == IF args.base # NoPath THEN args.base ELSE resolve_base_dir
             cats == Categories(args)
             since == IF args.since # "" THEN ValidDates[args.since] ELSE NoSince
             fs == collect_files(F, D, base, cats, since)
         IN  IF fs = <<>>
             THEN Exit(1, "no files", MkdirP(D, OutDir), A, fs, NoArch)
             ELSE Completed(F, D, A, t, args, fs, cats, ioHash, ioAdd, delFail)

\* a wrong variant of BackupMain: rotates before the empty-collection exit
BackupRotatingFirst(F, D, A, t, args, ioHash, ioAdd, delFail) ==
    IF ConfigError(args)
    THEN Exit(1, "config error", D, A, <<>>, NoArch)
    ELSE LET base == IF args.base # NoPath THEN args.base ELSE resolve_base_dir
             cats == Categories(args)
             since == IF args.since # "" THEN ValidDates[args.since] ELSE NoSince
             fs == collect_files(F, D, base, cats, since)
             A1 == IF args.keep > 0
                   THEN rotate_backups(A, args.keep, delFail) ELSE A
         IN  IF fs = <<>>
             THEN Exit(1, "no files", D, A1, fs, NoArch)
             ELSE Completed(F, D, A1, t, args, fs, cats, ioHash, ioAdd, delFail)

\* lines 479-541
BackupMain(F, D, A, t, args, ioHash, ioAdd, delFail) ==
    IF ConfigError(args)
    THEN Exit(1, "config error", D, A, <<>>, NoArch)
    ELSE LET base == IF args.base # NoPath THEN args.base ELSE resolve_base_dir
             cats == Categories(args)
             since == IF args.since # "" THEN ValidDates[args.since] ELSE NoSince
             fs == collect_files(F, D, base, cats, since)
         IN  IF fs = <<>>
             THEN Exit(1, "no files", D, A, fs, NoArch)
             ELSE Completed(F, D, A, t, args, fs, cats, ioHash, ioAdd, delFail)

(***************************************************************************)
(* main, lines 467-541: the dispatch on --verify and --restore before the  *)
(* backup run.  An option that was not given is None (NoPath here); the    *)
(* tests `if args.verify:` and `if args.restore:` are tests of truth, so   *)
(* the empty text counts as not given.                                     *)
(***************************************************************************)
EmptyText == <<"">>

Truthy(v) == v # NoPath /\ v # EmptyText

main(F, D, A, t, cli, ioHash, ioAdd, delFail) ==
    IF Truthy(cli.verify)
    THEN LET r == verify_archive(A, cli.verify)
         IN  [op |-> "verify", rc |-> IF r.ok THEN 0 ELSE 1,
              outcome |-> r.outcome, files |-> F, dirs |-> D, archives |-> A,
              collected |-> <<>>, arch |-> cli.verify, counts |-> r,
              restored |-> 0]
    ELSE IF Truthy(cli.restore)
    THEN LET r == restore_archive(F, D, A, cli.restore, t)
         IN  [op |-> "restore", rc |-> IF r.ok THEN 0 ELSE 1,
              outcome |-> r.outcome, files |-> r.files, dirs |-> r.dirs,
              archives |-> A, collected |-> <<>>, arch |-> cli.restore,
              counts |-> NoCounts, restored |-> r.restored]
    ELSE LET r == BackupMain(F, D, A, t, cli.args, ioHash, ioAdd, delFail)
         IN  [op |-> "backup", rc |-> r.rc, outcome |-> r.outcome,
              files |-> F, dirs |-> r.dirs, archives |-> r.archives,
              collected |-> r.collected, arch |-> r.arch,
              counts |-> NoCounts, restored |-> 0]

(***************************************************************************)
(* The state.  `last` records the last invocation: what was asked, the     *)
(* exit status and what was reported (replaced: the run opened for writing *)
(* an archive path at which a file already was).                           *)
(***************************************************************************)
NoArgs == [mode |-> "", include |-> <<>>, since |-> "", keep |-> 0,
           base |-> NoPath]

Report(op, rc, outcome, arch, args, collected, counts, restored) ==
    [op |-> op, rc |-> rc, outcome |-> outcome, arch |-> arch, args |-> args,
     collected |-> collected, checked |-> counts.checked,
     mismatch |-> counts.mismatch, missing |-> counts.missing,
     restored |-> restored, removed |-> 0,
     ioHash |-> {}, ioAdd |-> {}, delFail |-> {},
     verify |-> NoPath, restore |-> NoPath, replaced |-> FALSE]

Quiet(op) == Report(op, 0, "", NoArch, NoArgs, <<>>, NoCounts, 0)

File(d, t) == [data |-> d, mtime |-> t]

Vault ==
    (Proj \o <<"memory", "goals.md">>) :> File(1, 0)
    @@ (Proj \o <<"memory", "draft.txt">>) :> File(2, 0)
    @@ (Proj \o <<"memory", "decisions", "2025-01-01-note.md">>) :> File(2, 0)
    @@ (Proj \o <<"openclaw.mjs">>) :> File(1, 0)
    @@ (OpenclawHome \o <<"config.json">>) :> File(2, 0)
    @@ (Sess1 \o <<"s1.jsonl">>) :> File(1, 0)
    @@ (Sess1 \o <<"sessions.json">>) :> File(2, 0)
    @@ (AltBase \o <<"memory", "goals.md">>) :> File(2, 0)

DirsOf(F) == UNION {Ancestors(p) : p \in DOMAIN F}

\* an agent directory that holds no sessions directory
IdleAgent == AgentsRoot \o <<"a0">>

Restrict(F, S) == [p \in S |-> F[p]]

Init ==
    /\ files = Vault
    /\ dirs = DirsOf(Vault) \cup {IdleAgent}
    /\ archives = [n \in {} |-> 0]
    /\ now = 1
    /\ last = Quiet("init")
    /\ edits = 0

(***************************************************************************)
(* Inputs of the invocations.                                              *)
(***************************************************************************)
Args(mode, include, since, keep, base) ==
    [mode |-> mode, include |-> include, since |-> since, keep |-> keep,
     base |-> base]

\* the invocations of the lifecycle specification
LifecycleArgs ==
    {Args("full", <<>>, "", 0, NoPath),
     Args("full", <<"bogus">>, "", 1, AltBase),
     Args("memory", <<>>, "", 0, AltBase),
     Args("sessions", <<>>, "2025-01-02", 0, NoPath),
     Args("selective", <<"config", "sessions">>, "", 1, NoPath),
     Args("selective", <<"people">>, "", 0, NoPath),
     Args("selective", <<"goals", "bogus">>, "", 0, NoPath)}

\* the files whose read may fail
Flaky == {Proj \o <<"memory", "goals.md">>, Sess1 \o <<"s1.jsonl">>}

IOFailures == {S \in SUBSET Flaky : Cardinality(S) <= MaxIOFail}

\* the files other programs write and delete
Editable ==
    {AltBase \o <<"memory", "goals.md">>, Proj \o <<"openclaw.mjs">>,
     Sess1 \o <<"s1.jsonl">>}

(***************************************************************************)
(* Actions.                                                                *)
(***************************************************************************)
BackupStep(args, ioHash, ioAdd, delFail) ==
    \E r \in {BackupMain(files, dirs, archives, now, args, ioHash, ioAdd, delFail)} :
        /\ dirs' = r.dirs
        /\ archives' = r.archives
        /\ last' = [Report("backup", r.rc, r.outcome, r.arch, args,
                           r.collected, NoCounts, 0)
                      EXCEPT !.ioHash = ioHash, !.ioAdd = ioAdd,
                             !.delFail = delFail,
                             !.replaced = r.arch \in DOMAIN archives]
        /\ UNCHANGED <<files, now, edits>>

\* the lifecycle specifications follow one archive: a run into an output
\* directory that holds none yet
InvokeBackup ==
    /\ DOMAIN archives = {}
    /\ \E args \in LifecycleArgs, ioHash \in IOFailures, ioAdd \in IOFailures :
          BackupStep(args, ioHash, ioAdd, {})

InvokeVerify ==
    /\ \E n \in (DOMAIN archives) \cup {ArchiveName(0)} :
          \E r \in {verify_archive(archives, n)} :
              last' = Report("verify", IF r.ok THEN 0 ELSE 1, r.outcome, n,
                             NoArgs, <<>>, r, 0)
    /\ UNCHANGED <<files, dirs, archives, now, edits>>

InvokeRestore ==
    /\ \E n \in (DOMAIN archives) \cup {ArchiveName(0)} :
          \E r \in {restore_archive(files, dirs, archives, n, now)} :
              /\ files' = r.files
              /\ dirs' = r.dirs
              /\ last' = Report("restore", IF r.ok THEN 0 ELSE 1, r.outcome,
                                n, NoArgs, <<>>, NoCounts, r.restored)
    /\ UNCHANGED <<archives, now, edits>>

\* the bytes of one payload member of an archive are changed on disk
Tamper ==
    /\ \E n \in DOMAIN archives :
          /\ archives[n].changed = {}
          /\ \E i \in 1..Len(archives[n].members), d \in 1..MaxData :
                LET m == archives[n].members[i]
                IN  /\ ~IsSynthetic(m.name)
                    /\ m.isfile
                    /\ d # m.data
                    /\ archives' =
                         [archives EXCEPT
                             ![n].members[i].data = d,
                             ![n].changed = {[name |-> m.name, was |-> m.data]}]
    /\ last' = Quiet("tamper")
    /\ UNCHANGED <<files, dirs, now, edits>>

ExternalWrite ==
    /\ edits < MaxEdits
    /\ \E p \in Editable, d \in 1..MaxData :
          /\ p \in DOMAIN files => files[p].data # d
          /\ files' = [q \in (DOMAIN files) \cup {p} |->
                          IF q = p THEN File(d, now) ELSE files[q]]
          /\ dirs' = MkdirP(dirs, Front(p))
    /\ edits' = edits + 1
    /\ last' = Quiet("write")
    /\ UNCHANGED <<archives, now>>

ExternalDelete ==
    /\ edits < MaxEdits
    /\ \E p \in Editable \cap DOMAIN files :
          files' = Restrict(files, (DOMAIN files) \ {p})
    /\ edits' = edits + 1
    /\ last' = Quiet("delete")
    /\ UNCHANGED <<dirs, archives, now>>

Next ==
    \/ InvokeBackup
    \/ InvokeVerify
    \/ InvokeRestore
    \/ ExternalWrite
    \/ ExternalDelete

Spec == Init /\ [][Next]_vars

(***************************************************************************)
(* Corruption of an archive on disk: a backup, a change of one payload     *)
(* member's bytes, and verify.                                             *)
(***************************************************************************)
NextTamper == InvokeBackup \/ Tamper \/ InvokeVerify

SpecTamper == Init /\ [][NextTamper]_vars

(***************************************************************************)
(* Collection alone: collect_files applied to every category list of up to *)
(* MaxCats entries, on vaults holding any part of the varied files, the    *)
(* session log last modified at any time up to MaxMtime (the other files   *)
(* at time 0, before the cutoff a since date gives).                       *)
(***************************************************************************)
CollectVaried ==
    {Proj \o <<"memory", "goals.md">>,
     Proj \o <<"memory", "decisions", "2025-01-01-note.md">>,
     Proj \o <<"openclaw.mjs">>,
     OpenclawHome \o <<"config.json">>,
     Sess1 \o <<"s1.jsonl">>}

CatTokens == {"memory", "goals", "decisions", "config", "sessions", "bogus"}

CatLists == UNION {[1..k -> CatTokens] : k \in 0..MaxCats}

SinceValue(text) == IF text = "" THEN NoSince ELSE ValidDates[text]

InitCollect ==
    /\ \E S \in SUBSET CollectVaried, m \in 0..MaxMtime :
          files = [p \in (DOMAIN Vault) \ S |->
                      IF p = Sess1 \o <<"s1.jsonl">>
                      THEN File(Vault[p].data, m) ELSE Vault[p]]
    /\ dirs = MkdirP(DirsOf(files), IdleAgent)
    /\ archives = [n \in {} |-> 0]
    /\ now = 1
    /\ last = Quiet("init")
    /\ edits = 0

CollectCall ==
    /\ last.op = "init"
    /\ \E base \in {Proj, AltBase}, cats \in CatLists,
          since \in {"", "2025-01-02"} :
          last' = Report("collect", 0, "", NoArch,
                         Args("", cats, since, 0, base),
                         collect_files(files, dirs, base, cats, SinceValue(since)),
                         NoCounts, 0)
    /\ UNCHANGED <<files, dirs, archives, now, edits>>

NextCollect == CollectCall

SpecCollect == InitCollect /\ [][NextCollect]_vars

(***************************************************************************)
(* Output directories that hold earlier archives: up to MaxArchives of     *)
(* them, of any modification times, beside a file that is no archive.      *)
(***************************************************************************)
OldArchive(m) ==
    [container |-> "tar", members |-> <<>>, mtime |-> m, src |-> <<>>,
     ioHash |-> {}, ioAdd |-> {}, changed |-> {}]

NotesName == <<"notes-", 0, ".txt">>

OldArchiveSets ==
    UNION {{[n \in {ArchiveName(i) : i \in 1..k} |-> OldArchive(mt[n[2]])] :
               mt \in [1..k -> 1..MaxMtime]} : k \in 0..MaxArchives}

WithNotes(A) ==
    [n \in (DOMAIN A) \cup {NotesName} |->
        IF n = NotesName THEN OldArchive(1) ELSE A[n]]

InitRotate ==
    /\ files = Vault
    /\ dirs = DirsOf(Vault) \cup {IdleAgent, OutDir}
    /\ \E A \in OldArchiveSets : archives \in {A, WithNotes(A)}
    /\ now = MaxArchives + 1
    /\ last = Quiet("init")
    /\ edits = 0

RotateCall ==
    /\ \E keep \in (-1)..MaxKeep,
          delFail \in {S \in SUBSET DOMAIN archives : Cardinality(S) <= MaxIOFail} :
          /\ archives' = rotate_backups(archives, keep, delFail)
          /\ last' = [Report("rotate", 0, "", NoArch,
                             Args("", <<>>, "", keep, NoPath), <<>>, NoCounts, 0)
                        EXCEPT !.delFail = delFail,
                               !.removed = RemovedCount(archives, keep, delFail)]
    /\ UNCHANGED <<files, dirs, now, edits>>

NextRotate == RotateCall

SpecRotate == InitRotate /\ [][NextRotate]_vars

(***************************************************************************)
(* One backup invocation with any arguments, into an output directory that *)
(* may not exist yet or may hold earlier archives.                         *)
(***************************************************************************)
Modes == {"full", "memory", "sessions", "selective"}

IncludeInputs ==
    {<<>>, <<"people">>, <<"goals", "memory">>, <<"config", "sessions">>,
     <<"bogus">>, <<" goals", "bogus">>}

SinceInputs == {"", "2025-01-02", "yesterday"}

RunArgs ==
    {a \in [mode : Modes, include : IncludeInputs, since : SinceInputs,
            keep : 0..MaxKeep, base : {NoPath, AltBase}] :
        a.mode # "selective" => a.include \in {<<>>, <<"bogus">>}}

\* earlier archives, the i-th modified at time i
AgedArchives(k) == [n \in {ArchiveName(i) : i \in 1..k} |-> OldArchive(n[2])]

InitRun ==
    /\ \E S \in {{}, {Sess1 \o <<"s1.jsonl">>, Sess1 \o <<"sessions.json">>}} :
          files = Restrict(Vault, (DOMAIN Vault) \ S)
    /\ \E k \in 0..MaxArchives :
          /\ archives = AgedArchives(k)
          /\ dirs \in {DirsOf(files) \cup {IdleAgent, Sess1} \cup X :
                          X \in IF k = 0 THEN {{}, {OutDir}} ELSE {{OutDir}}}
    /\ now = MaxArchives + 1
    /\ last = Quiet("init")
    /\ edits = 0

RunBackup ==
    /\ last.op = "init"
    /\ \E args \in RunArgs,
          delFail \in {S \in SUBSET DOMAIN archives : Cardinality(S) <= MaxIOFail} :
          BackupStep(args, {}, {}, delFail)

NextRun == RunBackup

SpecRun == InitRun /\ [][NextRun]_vars

(***************************************************************************)
(* Archives of unknown provenance: any members under two names (absent, a  *)
(* file, a directory entry, or the name twice), with no manifest, a        *)
(* manifest that is no regular file, or a manifest listing any of the      *)
(* names with "ERROR" or a digest.                                         *)
(***************************************************************************)
DirEntry(name) == [name |-> name, isfile |-> FALSE, data |-> 0, json |-> <<>>]

MemberChoices(name) ==
    {<<>>, <<DirEntry(name)>>, <<Payload(name, 1), Payload(name, MaxData)>>}
    \cup {<<Payload(name, d)>> : d \in 1..MaxData}

EntryChoices(name) ==
    {<<>>, << <<name, ERROR>> >>} \cup {<< <<name, Sha256(d)>> >> : d \in 1..MaxData}

ForeignPayloads ==
    {m1 \o m2 : m1 \in MemberChoices(<<"memory", "goals.md">>),
                m2 \in MemberChoices(<<"sessions", "s1.jsonl">>)}

ForeignManifests ==
    {<<>>, <<DirEntry(ManifestName)>>}
    \cup {<<Synthetic(ManifestName, e1 \o e2)>> :
             e1 \in EntryChoices(<<"memory", "goals.md">>),
             e2 \in EntryChoices(<<"sessions", "s1.jsonl">>)}

ForeignArchives ==
    {[OldArchive(1) EXCEPT !.members = p \o m] :
        p \in ForeignPayloads, m \in ForeignManifests}

InitForeign ==
    /\ files = Vault
    /\ dirs = DirsOf(Vault) \cup {IdleAgent, OutDir}
    /\ \E a \in ForeignArchives : archives = (ArchiveName(1) :> a)
    /\ now = 1
    /\ last = Quiet("init")
    /\ edits = 0

NextForeign == InvokeVerify \/ InvokeRestore

SpecForeign == InitForeign /\ [][NextForeign]_vars

(***************************************************************************)
(* The same full backup run again and again on a vault nobody changes,     *)
(* while the clock (in seconds) moves on or not between two runs; a file   *)
(* may fail to be read or added in one run and not in the other.           *)
(***************************************************************************)
Tick ==
    /\ now < MaxClock
    /\ now' = now + 1
    /\ UNCHANGED <<files, dirs, archives, last, edits>>

FullBackup ==
    \E args \in {a \in LifecycleArgs : a.mode = "full" /\ a.base = NoPath},
       ioHash \in IOFailures :
        BackupStep(args, ioHash, {}, {})

NextTwice == FullBackup \/ Tick

SpecTwice == Init /\ [][NextTwice]_vars

(***************************************************************************)
(* Restoring and verifying what somebody hands over: a container that may  *)
(* be unreadable, or a tar whose members overwrite a vault file (also      *)
(* twice), name a path that is a directory on disk, go to the sessions and *)
(* configuration roots or to a new directory, with or without a manifest   *)
(* (whose digest fits one of the contents); on a machine with or without a *)
(* sessions directory.                                                     *)
(***************************************************************************)
GoalsArc == <<"memory", "goals.md">>

BlockedArc == <<"memory", "decisions">>

SessionArc == <<"sessions", "s1.jsonl">>

ConfigArc == <<"config", "config.json">>

DocsArc == <<"docs", "readme.md">>

HandedPayloads ==
    {g \o b \o x \o c \o d :
        g \in {<<>>, <<Payload(GoalsArc, 1), Payload(GoalsArc, MaxData)>>}
               \cup {<<Payload(GoalsArc, v)>> : v \in 1..MaxData},
        b \in {<<>>, <<Payload(BlockedArc, 1)>>},
        x \in {<<>>, <<Payload(SessionArc, MaxData)>>},
        c \in {<<>>, <<Payload(ConfigArc, 1)>>},
        d \in {<<>>, <<Payload(DocsArc, 1)>>, <<DirEntry(<<"docs", "empty">>)>>}}

HandedManifests ==
    {<<>>,
     <<Synthetic(ManifestName, << <<GoalsArc, Sha256(1)>> >>),
       Synthetic(MetaName, <<>>)>>}

HandedArchives ==
    {[OldArchive(1) EXCEPT !.members = p \o m] :
        p \in HandedPayloads, m \in HandedManifests}
    \cup {[OldArchive(1) EXCEPT !.container = c] : c \in {"garbage", "truncated"}}

\* the vault of a machine on which no agent has a sessions directory
NoSessionsVault ==
    Restrict(Vault, {p \in DOMAIN Vault : ~IsPrefix(Sess1, p)})

InitRestore ==
    /\ \/ files = Vault /\ dirs = DirsOf(Vault) \cup {IdleAgent, OutDir}
       \/ /\ files = NoSessionsVault
          /\ dirs = MkdirP(MkdirP(DirsOf(NoSessionsVault) \cup {OutDir},
                                  IdleAgent), AgentsRoot \o <<"a1">>)
    /\ \E a \in HandedArchives : archives = (ArchiveName(1) :> a)
    /\ now = 1
    /\ last = Quiet("init")
    /\ edits = 0

NextRestore == InvokeVerify \/ InvokeRestore

SpecRestore == InitRestore /\ [][NextRestore]_vars

(***************************************************************************)
(* Whole invocations: any combination of --verify and --restore (absent,   *)
(* the empty text, an archive of the output directory, or a path where     *)
(* there is none) with the options of a backup run, up to MaxEdits + 1 of  *)
(* them one after another, in an output directory that holds earlier       *)
(* archives.                                                               *)
(***************************************************************************)
PathInputs == {NoPath, EmptyText, ArchiveName(0), ArchiveName(MaxArchives + 1)}

CliInputs ==
    [args : {a \in RunArgs : /\ a.mode \in {"full", "selective"}
                             /\ a.include = <<>>
                             /\ a.base = NoPath
                             /\ a.since = ""
                             /\ a.keep \in {0, 1}},
     verify : PathInputs, restore : PathInputs]

InitMain ==
    /\ files = Vault
    /\ dirs = DirsOf(Vault) \cup {IdleAgent, OutDir}
    /\ \E k \in 0..MaxArchives : archives = AgedArchives(k)
    /\ now = MaxArchives + 1
    /\ last = Quiet("init")
    /\ edits = 0

\* edits counts the invocations made
InvokeMain ==
    /\ edits <= MaxEdits
    /\ \E cli \in CliInputs :
          \E r \in {main(files, dirs, archives, now, cli, {}, {}, {})} :
              /\ files' = r.files
              /\ dirs' = r.dirs
              /\ archives' = r.archives
              /\ last' = [Report(r.op, r.rc, r.outcome, r.arch, cli.args,
                                 r.collected, r.counts, r.restored)
                            EXCEPT !.verify = cli.verify,
                                   !.restore = cli.restore]
    /\ edits' = edits + 1
    /\ UNCHANGED now

NextMain == InvokeMain

SpecMain == InitMain /\ [][NextMain]_vars

(***************************************************************************)
(* Backup runs whose timestamps fall in the same second: the clock stands  *)
(* still, so every run computes the same archive name.  A run either       *)
(* starts after the one before it has ended (BackupAgain), or two runs     *)
(* overlap (OverlappingBackups): both open the same path for writing,      *)
(* line 225, and each writes from its own file offset.  What the file      *)
(* holds after both have closed depends on how their writes interleave:    *)
(* the archive of one run, the archive of the other, or a mixture of the   *)
(* two compressed streams that no longer reads as a gzip tar.              *)
(***************************************************************************)
SameSecondArgs == {a \in LifecycleArgs : a.keep = 0}

Mixture(t) == [OldArchive(t) EXCEPT !.container = "garbage"]

BackupAgain ==
    \E args \in SameSecondArgs, ioHash \in IOFailures, ioAdd \in IOFailures :
        BackupStep(args, ioHash, ioAdd, {})

OverlappingBackups ==
    \E a1 \in SameSecondArgs, a2 \in SameSecondArgs :
        /\ ~ConfigError(a1) /\ ~ConfigError(a2)
        /\ \E r1 \in {BackupMain(files, dirs, archives, now, a1, {}, {}, {})},
              r2 \in {BackupMain(files, dirs, archives, now, a2, {}, {}, {})} :
              /\ r1.rc = 0 /\ r2.rc = 0
              /\ \E rec \in {r1.archives[r1.arch], r2.archives[r2.arch],
                             Mixture(now)} :
                    archives' = [n \in (DOMAIN archives) \cup {r2.arch} |->
                                    IF n = r2.arch THEN rec ELSE archives[n]]
              /\ dirs' = r2.dirs
              /\ last' = [Report("overlap", r2.rc, r2.outcome, r2.arch, a2,
                                 r2.collected, NoCounts, 0)
                            EXCEPT !.replaced = TRUE]
        /\ UNCHANGED <<files, now, edits>>

NextSameSecond == BackupAgain \/ OverlappingBackups

SpecSameSecond == Init /\ [][NextSameSecond]_vars

(***************************************************************************)
(* A backup run during which another process writes: between the hashing   *)
(* pass and the packing pass of create_backup some files of the vault get  *)
(* new bytes (none, when the set is empty).  The runs are those without    *)
(* rotation (keep = 0); edits counts the files written, MaxEdits + 1 at    *)
(* most.                                                                   *)
(***************************************************************************)
Overwrite(F, W, d, t) ==
    [p \in DOMAIN F |-> IF p \in W THEN File(d, t) ELSE F[p]]

RacingBackup ==
    \E args \in SameSecondArgs, d \in 1..MaxData,
       W \in {S \in SUBSET (Editable \cap DOMAIN files) :
                 Cardinality(S) <= MaxEdits + 1 - edits} :
        /\ ~ConfigError(args)
        /\ W = {} => d = 1
        /\ \A p \in W : files[p].data # d
        /\ LET base == IF args.base # NoPath THEN args.base
                       ELSE resolve_base_dir
               cats == Categories(args)
               since == IF args.since # "" THEN ValidDates[args.since]
                        ELSE NoSince
               fs == collect_files(files, dirs, base, cats, since)
               Fp == Overwrite(files, W, d, now)
           IN  /\ fs # <<>>
               /\ \E cb \in {PackBackup(files, Fp, dirs, archives, fs,
                                        Label(args.mode, cats), now, {}, {})} :
                     /\ dirs' = cb.dirs
                     /\ archives' = cb.archives
                     /\ last' = [Report("backup", 0, "complete", cb.name, args,
                                        fs, NoCounts, 0)
                                   EXCEPT !.replaced = cb.name \in DOMAIN archives]
               /\ files' = Fp
        /\ edits' = edits + Cardinality(W)
        /\ UNCHANGED now

NextRace == RacingBackup \/ InvokeVerify

SpecRace == Init /\ [][NextRace]_vars

(***************************************************************************)
(* One backup invocation into an output directory whose earlier archives   *)
(* carry any modification times: long past, the second the run starts in,  *)
(* or later than that (files copied in, touched, or written before the     *)
(* clock was set back).                                                    *)
(***************************************************************************)
SkewedArchiveSets ==
    UNION {{[n \in {ArchiveName(i) : i \in 1..k} |-> OldArchive(mt[n[2]])] :
               mt \in [1..k -> {1, MaxArchives + 1, MaxArchives + 2}]} :
           k \in 0..MaxArchives}

InitSkew ==
    /\ files = Vault
    /\ dirs = DirsOf(Vault) \cup {IdleAgent, OutDir}
    /\ archives \in SkewedArchiveSets
    /\ now = MaxArchives + 1
    /\ last = Quiet("init")
    /\ edits = 0

NextSkew == RunBackup

SpecSkew == InitSkew /\ [][NextSkew]_vars

(***************************************************************************)
(* Archives with hostile member names handed to restore: names that begin  *)
(* with "..", absolute names, and names that leave the configuration or    *)
(* the sessions directory through ".." after their prefix, beside one      *)
(* ordinary member.                                                        *)
(***************************************************************************)
EscapingArc == <<"..", "escaped.md">>

AbsoluteArc == <<RootMark, "abs", "escaped.md">>

ConfigEscapingArc == <<"config", "..", "escaped.json">>

SessionEscapingArc == <<"sessions", "..", "..", "..", "..", "escaped.jsonl">>

HostilePayloads ==
    {g \o e \o a \o c \o x :
        g \in {<<>>} \cup {<<Payload(GoalsArc, v)>> : v \in 1..MaxData},
        e \in {<<>>} \cup {<<Payload(EscapingArc, v)>> : v \in 1..MaxData},
        a \in {<<>>} \cup {<<Payload(AbsoluteArc, v)>> : v \in 1..MaxData},
        c \in {<<>>, <<Payload(ConfigEscapingArc, 1)>>},
        x \in {<<>>, <<Payload(SessionEscapingArc, 1)>>}}

InitTraversal ==
    /\ \/ files = Vault /\ dirs = DirsOf(Vault) \cup {IdleAgent, OutDir}
       \/ /\ files = NoSessionsVault
          /\ dirs = MkdirP(MkdirP(DirsOf(NoSessionsVault) \cup {OutDir},
                                  IdleAgent), AgentsRoot \o <<"a1">>)
    /\ \E p \in HostilePayloads :
          archives = (ArchiveName(1) :> [OldArchive(1) EXCEPT !.members = p])
    /\ now = 1
    /\ last = Quiet("init")
    /\ edits = 0

NextTraversal == InvokeRestore

SpecTraversal == InitTraversal /\ [][NextTraversal]_vars

(***************************************************************************)
(* An archive of unknown provenance that gains a member: somebody repacks  *)
(* it with one more payload member, a file or a directory entry, under a   *)
(* name its MANIFEST.json does not list, at any position.  The ghost field *)
(* changed records the name added.                                         *)
(***************************************************************************)
ListedNames(a) ==
    IF HasMember(a.members, ManifestName)
       /\ GetMember(a.members, ManifestName).isfile
    THEN DOMAIN json_loads(GetMember(a.members, ManifestName).json)
    ELSE {}

ExtraNames == {GoalsArc, SessionArc, DocsArc}

InsertAt(s, pos, x) == SubSeq(s, 1, pos) \o <<x>> \o SubSeq(s, pos + 1, Len(s))

AddUnlisted ==
    /\ \E n \in DOMAIN archives :
          /\ archives[n].container = "tar"
          /\ archives[n].changed = {}
          /\ \E name \in ExtraNames \ ListedNames(archives[n]),
                pos \in 0..Len(archives[n].members) :
                \E x \in {DirEntry(name)} \cup {Payload(name, d) : d \in 1..MaxData} :
                    archives' =
                        [archives EXCEPT
                            ![n].members = InsertAt(archives[n].members, pos, x),
                            ![n].changed = {[name |-> name, was |-> 0]}]
    /\ last' = Quiet("add")
    /\ UNCHANGED <<files, dirs, now, edits>>

NextAugment == InvokeVerify \/ AddUnlisted

SpecAugment == InitForeign /\ [][NextAugment]_vars

(***************************************************************************)
(* What the properties read off a state.                                    *)
(***************************************************************************)
Min(a, b) == IF a <= b THEN a ELSE b

Written == last.arch \in DOMAIN archives

ManifestOf(a) == json_loads(GetMember(a.members, ManifestName).json)

\* the archive as it was before its one payload member was changed
Original(a) ==
    [a EXCEPT !.members =
        [i \in 1..Len(a.members) |->
            IF \E c \in a.changed : c.name = a.members[i].name
            THEN [a.members[i] EXCEPT
                     !.data = (CHOOSE c \in a.changed :
                                  c.name = a.members[i].name).was]
            ELSE a.members[i]]]

WasValid(a) == verify_archive(last.arch :> Original(a), last.arch).ok

ChangedName(a) == (CHOOSE c \in a.changed : TRUE).name

Matching(A) == {n \in DOMAIN A : MatchesBackupPattern(n)}

ListedConfigError(args) ==
    \/ args.mode = "selective" /\ args.include = <<>>
    \/ /\ args.mode = "selective"
       /\ \E i \in 1..Len(args.include) :
              Strip(args.include[i]) \notin Range(CategoryOrder)
    \/ args.since \notin {"", "2025-01-02"}

\* the collection a backup invocation with these arguments makes
Collection(F, D, args) ==
    collect_files(F, D,
        IF args.base = NoPath THEN Proj ELSE args.base,
        IF args.mode = "selective"
        THEN [i \in 1..Len(args.include) |-> Strip(args.include[i])]
        ELSE MODE_CATEGORIES[args.mode],
        SinceValue(args.since))

RawCandidates(F, D, base, cats, since) ==
    Concat([i \in 1..Len(cats) |-> CategoryCandidates(F, D, base, cats[i], since)])

RECURSIVE KeepFirst(_, _)
KeepFirst(raw, i) ==
    IF i > Len(raw) THEN <<>>
    ELSE (IF \E j \in 1..(i - 1) : raw[j].arc = raw[i].arc
          THEN <<>> ELSE <<raw[i]>>) \o KeepFirst(raw, i + 1)

(***************************************************************************)
(* C1.  Round trip: after a successful restore of an archive that a backup *)
(* run wrote without any I/O failure and that nobody altered since, every  *)
(* file the run collected exists at the path it was collected from, with   *)
(* the bytes it had at backup time.                                        *)
(***************************************************************************)
RoundTrip ==
    (/\ last.op = "restore" /\ last.rc = 0 /\ Written
     /\ archives[last.arch].src # <<>>
     /\ archives[last.arch].changed = {}
     /\ archives[last.arch].ioHash = {}
     /\ archives[last.arch].ioAdd = {})
    => \A i \in 1..Len(archives[last.arch].src) :
          LET e == archives[last.arch].src[i]
          IN  IsFile(files, e.abs) /\ files[e.abs].data = e.data

(***************************************************************************)
(* C2.  verify on the archive create_backup wrote for a non-empty          *)
(* collection, unaltered since, returns success with no MISMATCH and no    *)
(* MISSING.                                                                *)
(***************************************************************************)
VerifyOwnArchive ==
    (/\ last.op = "verify" /\ Written
     /\ archives[last.arch].src # <<>>
     /\ archives[last.arch].changed = {})
    => (last.rc = 0 /\ last.mismatch = 0 /\ last.missing = 0)

(***************************************************************************)
(* C3.  Corruption detection, as stated: when the bytes of exactly one     *)
(* payload member of a valid archive are changed and the manifest is left  *)
(* alone, verify reports one MISMATCH, no MISSING, and fails.              *)
(***************************************************************************)
CorruptionDetected ==
    (/\ last.op = "verify" /\ Written
     /\ archives[last.arch].src # <<>>
     /\ archives[last.arch].changed # {}
     /\ WasValid(archives[last.arch]))
    => (last.mismatch = 1 /\ last.missing = 0 /\ last.rc = 1)

(***************************************************************************)
(* C3, amended.  The same, for a changed member whose manifest entry is a  *)
(* digest and not "ERROR".                                                 *)
(***************************************************************************)
CorruptionDetectedWhenHashed ==
    (/\ last.op = "verify" /\ Written
     /\ archives[last.arch].src # <<>>
     /\ archives[last.arch].changed # {}
     /\ WasValid(archives[last.arch])
     /\ ChangedName(archives[last.arch]) \in DOMAIN ManifestOf(archives[last.arch])
     /\ ManifestOf(archives[last.arch])[ChangedName(archives[last.arch])] # ERROR)
    => (last.mismatch = 1 /\ last.missing = 0 /\ last.rc = 1)

CorruptionDetectedWitness ==
    /\ last.op = "verify" /\ Written
    /\ archives[last.arch].src # <<>>
    /\ archives[last.arch].changed # {}
    /\ WasValid(archives[last.arch])
    /\ ChangedName(archives[last.arch]) \in DOMAIN ManifestOf(archives[last.arch])
    /\ ManifestOf(archives[last.arch])[ChangedName(archives[last.arch])] # ERROR
    /\ last.mismatch = 1 /\ last.rc = 1
    /\ last.checked >= 1

DedupFirstWins ==
    last.op = "collect"
    => LET got == last.collected
           raw == RawCandidates(files, dirs, last.args.base, last.args.include,
                                SinceValue(last.args.since))
       IN  /\ \A i, j \in 1..Len(got) : i # j => got[i].arc # got[j].arc
           /\ got = KeepFirst(raw, 1)

DedupWitness ==
    /\ last.op = "collect"
    /\ Len(last.collected) >= 1
    /\ Len(RawCandidates(files, dirs, last.args.base, last.args.include,
                         SinceValue(last.args.since))) > Len(last.collected)
    /\ last.args.include = <<"memory", "goals">>

(***************************************************************************)
(* C6.  Retention, as stated: after rotate(dir, N) the number of archives  *)
(* is min(N, countBefore) and no survivor is older than a deleted one.     *)
(***************************************************************************)
RetentionAsStated ==
    [][last'.op = "rotate"
       => LET before == Matching(archives)
              after  == Matching(archives')
          IN  /\ after \subseteq before
              /\ Cardinality(after) = Min(last'.args.keep, Cardinality(before))
              /\ \A s \in after, r \in before \ after :
                    archives[s].mtime >= archives[r].mtime]_vars

(***************************************************************************)
(* C6, amended.  For N >= 1 rotate deletes only archives that at least N   *)
(* others are as recent as, and none whose deletion fails; when no         *)
(* deletion fails the count is min(N, countBefore) and no survivor is      *)
(* older than a deleted archive.  For N <= 0 it deletes nothing.  Files    *)
(* that do not match the pattern are never touched.                        *)
(***************************************************************************)
RetentionKeepsNewest ==
    [][last'.op = "rotate"
       => LET before == Matching(archives)
              after  == Matching(archives')
              gone   == before \ after
              N      == last'.args.keep
          IN  /\ after \subseteq before
              /\ \A n \in DOMAIN archives' : archives'[n] = archives[n]
              /\ (DOMAIN archives) \ before \subseteq DOMAIN archives'
              /\ N <= 0 => gone = {}
              /\ gone \cap last'.delFail = {}
              /\ \A r \in gone :
                    Cardinality({s \in before \ {r} :
                        archives[s].mtime >= archives[r].mtime}) >= N
              /\ (N >= 1 /\ last'.delFail \cap before = {})
                 => /\ Cardinality(after) = Min(N, Cardinality(before))
                    /\ \A s \in after, r \in gone :
                          archives[s].mtime >= archives[r].mtime]_vars

RetentionWitness ==
    /\ last.op = "rotate"
    /\ last.args.keep = 2
    /\ last.removed = 1
    /\ last.delFail = {}
    /\ Cardinality(Matching(archives)) = 2
    /\ NotesName \in DOMAIN archives

(***************************************************************************)
(* C7.  A backup invocation with a configuration error (selective with an  *)
(* unknown category, selective without an include list, or a malformed     *)
(* since date) exits non-zero and changes nothing on the file system: no   *)
(* output directory, no archive, no rotation.                              *)
(***************************************************************************)
ConfigErrorMutatesNothing ==
    [][(last'.op = "backup" /\ ListedConfigError(last'.args))
       => /\ last'.rc # 0
          /\ files' = files
          /\ dirs' = dirs
          /\ archives' = archives]_vars

ConfigErrorWitness ==
    /\ last.op = "backup"
    /\ ListedConfigError(last.args)
    /\ last.rc = 1
    /\ last.args.keep >= 1
    /\ OutDir \notin dirs
    /\ last.args.mode = "selective"
    /\ last.args.include # <<>>

(***************************************************************************)
(* C8.  When collection yields no files for the requested categories the   *)
(* backup invocation exits with status 1, produces no archive, creates no  *)
(* output directory and deletes no existing archive.                       *)
(***************************************************************************)
EmptyCollectionMutatesNothing ==
    [][(/\ last'.op = "backup"
        /\ ~ListedConfigError(last'.args)
        /\ Collection(files, dirs, last'.args) = <<>>)
       => /\ last'.rc = 1
          /\ files' = files
          /\ dirs' = dirs
          /\ archives' = archives]_vars

EmptyCollectionWitness ==
    /\ last.op = "backup"
    /\ last.outcome = "no files"
    /\ last.rc = 1
    /\ last.args.keep >= 1
    /\ Cardinality(Matching(archives)) > last.args.keep

(***************************************************************************)
(* C9.  As stated: when adding a collected file to the archive fails with  *)
(* an I/O error the run still completes and writes an archive, and the     *)
(* file's archive-relative path is absent from the payload members and     *)
(* from the keys of the embedded MANIFEST.json.                            *)
(***************************************************************************)
FailedAddAbsentFromManifest ==
    (last.op = "backup" /\ last.rc = 0 /\ Written)
    => \A i \in 1..Len(last.collected) :
          last.collected[i].abs \in last.ioAdd
          => /\ ~HasMember(archives[last.arch].members, last.collected[i].arc)
             /\ last.collected[i].arc
                   \notin DOMAIN ManifestOf(archives[last.arch])

(***************************************************************************)
(* C10.  compute_manifest never aborts on an unreadable file: the run      *)
(* completes, the manifest has one key per collected file, a file whose    *)
(* read fails is mapped to "ERROR" and every other file to the SHA-256     *)
(* digest of the content it had.                                           *)
(***************************************************************************)
ManifestSentinel ==
    last.op = "backup"
    => /\ last.collected # <<>> => (last.rc = 0 /\ Written)
       /\ Written
          => LET a   == archives[last.arch]
                 man == ManifestOf(a)
             IN  /\ DOMAIN man = {last.collected[i].arc :
                                     i \in 1..Len(last.collected)}
                 /\ \A i \in 1..Len(last.collected) :
                       LET c == last.collected[i]
                       IN  man[c.arc] = IF c.abs \in last.ioHash
                                        THEN ERROR
                                        ELSE Sha256(a.src[i].data)

ManifestSentinelWitness ==
    /\ last.op = "backup"
    /\ last.rc = 0
    /\ Written
    /\ \E i, j \in 1..Len(last.collected) :
          /\ last.collected[i].abs \in last.ioHash
          /\ last.collected[j].abs \notin last.ioHash
          /\ ManifestOf(archives[last.arch])[last.collected[i].arc] = ERROR
          /\ ManifestOf(archives[last.arch])[last.collected[j].arc] # ERROR

\* where the specification sends a member, given the sessions directory
RoutedTo(name, sd) ==
    IF Head(name) = "sessions" THEN sd \o Tail(name)
    ELSE IF Head(name) = "config" THEN <<"home", ".openclaw">> \o Tail(name)
    ELSE <<"proj">> \o name

\* the indices of the members restore has to write: regular files other
\* than the two synthetic ones, session members only with a sessions directory
Restorable(members, sd) ==
    {i \in 1..Len(members) :
        /\ members[i].name \notin {<<"MANIFEST.json">>, <<"BACKUP_META.json">>}
        /\ members[i].isfile
        /\ ~(Head(members[i].name) = "sessions" /\ sd = NoPath)}

\* a target that cannot be created or opened: a directory sits at its
\* path, or a file at the path of one of its parents
Blocked(F, D, target) ==
    \/ target \in D
    \/ \E k \in 1..(Len(target) - 1) : SubSeq(target, 1, k) \in DOMAIN F

\* the paths whose file was created or rewritten by the step
Touched ==
    {p \in DOMAIN files' : p \notin DOMAIN files \/ files'[p] # files[p]}

(***************************************************************************)
(* C11.  Verify of a readable gzip tar without a member MANIFEST.json      *)
(* returns success (exit status 0), whatever the other members are.        *)
(***************************************************************************)
NoManifestVerifies ==
    (/\ last.op = "verify" /\ Written
     /\ archives[last.arch].container = "tar"
     /\ \A i \in 1..Len(archives[last.arch].members) :
           archives[last.arch].members[i].name # <<"MANIFEST.json">>)
    => /\ last.rc = 0
       /\ last.outcome = "unverified"
       /\ last.mismatch = 0 /\ last.missing = 0

NoManifestWitness ==
    /\ last.op = "verify" /\ Written
    /\ last.rc = 0
    /\ last.outcome = "unverified"
    /\ \E i \in 1..Len(archives[last.arch].members) :
          ~archives[last.arch].members[i].isfile
    /\ \E i \in 1..Len(archives[last.arch].members) :
          archives[last.arch].members[i].isfile

(***************************************************************************)
(* C12.  When the container cannot be read as a compressed tar stream,     *)
(* verify and restore each return failure (exit status 1) and report the   *)
(* archive as corrupt, not a per-file MISMATCH or MISSING.                 *)
(***************************************************************************)
UnreadableContainerReported ==
    (/\ last.op \in {"verify", "restore"} /\ Written
     /\ archives[last.arch].container # "tar")
    => /\ last.rc = 1
       /\ last.outcome \in {"corrupt", "archive error"}
       /\ last.mismatch = 0 /\ last.missing = 0

(***************************************************************************)
(* C13.  Restore routes by prefix: a restore that meets no OS error leaves *)
(* every member under sessions/ under the resolved sessions directory,     *)
(* every member under config/ under the home configuration directory and   *)
(* every other member under the project base directory at its full         *)
(* relative path; it writes no other file, so MANIFEST.json and            *)
(* BACKUP_META.json are written nowhere.                                   *)
(***************************************************************************)
RestoreRoutesByPrefix ==
    [][(last'.op = "restore" /\ last'.outcome = "restored")
       => LET mem == archives[last'.arch].members
              sd  == resolve_sessions_dir(dirs)
              todo == Restorable(mem, sd)
          IN  /\ \A i \in todo :
                    /\ RoutedTo(mem[i].name, sd) \in DOMAIN files'
                    /\ files'[RoutedTo(mem[i].name, sd)].data
                          \in {mem[j].data : j \in {k \in todo :
                                                mem[k].name = mem[i].name}}
              /\ Touched \subseteq {RoutedTo(mem[i].name, sd) : i \in todo}
              /\ last'.restored = Cardinality(todo)]_vars

RestoreRoutesWitness ==
    /\ last.op = "restore" /\ last.outcome = "restored" /\ Written
    /\ last.restored >= 4
    /\ HasMember(archives[last.arch].members, ManifestName)
    /\ Sess1 \o <<"s1.jsonl">> \in DOMAIN files
    /\ files[Sess1 \o <<"s1.jsonl">>].data = MaxData
    /\ files[OpenclawHome \o <<"config.json">>].data = 1
    /\ Proj \o DocsArc \in DOMAIN files
    /\ Proj \o ManifestName \notin DOMAIN files

(***************************************************************************)
(* C14.  When no sessions directory can be resolved, restore skips every   *)
(* member under sessions/ (writing it nowhere), still restores every other *)
(* member and returns success (given that no target is blocked, which is   *)
(* another failure).                                                       *)
(***************************************************************************)
SessionsSkippedNotFatal ==
    [][(/\ last'.op = "restore"
        /\ last'.arch \in DOMAIN archives
        /\ archives[last'.arch].container = "tar"
        /\ resolve_sessions_dir(dirs') = NoPath
        /\ \A i \in Restorable(archives[last'.arch].members, NoPath) :
              ~Blocked(files, dirs,
                       RoutedTo(archives[last'.arch].members[i].name, NoPath)))
       => LET mem == archives[last'.arch].members
              todo == Restorable(mem, NoPath)
          IN  /\ last'.rc = 0
              /\ \A i \in todo :
                    /\ RoutedTo(mem[i].name, NoPath) \in DOMAIN files'
                    /\ files'[RoutedTo(mem[i].name, NoPath)].data
                          \in {mem[j].data : j \in {k \in todo :
                                                mem[k].name = mem[i].name}}
              /\ Touched \subseteq {RoutedTo(mem[i].name, NoPath) : i \in todo}
              /\ \A p \in DOMAIN files' : Last(p) # "s1.jsonl"]_vars

SessionsSkippedWitness ==
    /\ last.op = "restore" /\ last.rc = 0 /\ Written
    /\ resolve_sessions_dir(dirs) = NoPath
    /\ HasMember(archives[last.arch].members, SessionArc)
    /\ last.restored >= 2
    /\ Proj \o DocsArc \in DOMAIN files

(***************************************************************************)
(* C15.  Restore overwrites unconditionally: after a successful restore    *)
(* the target of every non-skipped regular-file member holds the member's  *)
(* bytes (those of the last member of that name), whatever the target held *)
(* before and whatever digest MANIFEST.json records for it.                *)
(***************************************************************************)
RestoreOverwrites ==
    [][(last'.op = "restore" /\ last'.rc = 0 /\ last'.arch \in DOMAIN archives)
       => LET mem == archives[last'.arch].members
              sd  == resolve_sessions_dir(dirs)
              todo == Restorable(mem, sd)
          IN  \A i \in todo :
                 (\A j \in todo : j > i => mem[j].name # mem[i].name)
                 => /\ RoutedTo(mem[i].name, sd) \in DOMAIN files'
                    /\ files'[RoutedTo(mem[i].name, sd)].data = mem[i].data]_vars

RestoreOverwritesWitness ==
    /\ last.op = "restore" /\ last.rc = 0 /\ Written
    /\ verify_archive(archives, last.arch).mismatch = 1
    /\ files[Proj \o GoalsArc].data = MaxData
    /\ files[Proj \o GoalsArc].data # Vault[Proj \o GoalsArc].data
    /\ files[OpenclawHome \o <<"config.json">>].data
          # Vault[OpenclawHome \o <<"config.json">>].data

(***************************************************************************)
(* C16.  As stated for restoration: a target that cannot be created or     *)
(* opened does not stop the restore; every other member is still restored  *)
(* and the run ends with a reported result.                                *)
(***************************************************************************)
RestoreFailureIsolated ==
    [][(/\ last'.op = "restore"
        /\ last'.arch \in DOMAIN archives
        /\ archives[last'.arch].container = "tar")
       => LET mem == archives[last'.arch].members
              sd  == resolve_sessions_dir(dirs)
              todo == {i \in Restorable(mem, sd) :
                          ~Blocked(files, dirs, RoutedTo(mem[i].name, sd))}
          IN  /\ last'.outcome = "restored"
              /\ \A i \in todo :
                    /\ RoutedTo(mem[i].name, sd) \in DOMAIN files'
                    /\ files'[RoutedTo(mem[i].name, sd)].data
                          \in {mem[j].data : j \in {k \in todo :
                                                mem[k].name = mem[i].name}}]_vars

(***************************************************************************)
(* C17.  Idempotence as stated: a full backup run after another one, with  *)
(* no change to the files, yields two archives with different filenames    *)
(* whose MANIFEST.json map the same keys to the same values.               *)
(***************************************************************************)
TwiceSameManifest ==
    [][(/\ last.op = "backup" /\ last.rc = 0
        /\ last'.op = "backup" /\ last'.rc = 0
        /\ now' = now
        /\ files' = files)
       => /\ last'.arch # last.arch
          /\ {last.arch, last'.arch} \subseteq DOMAIN archives'
          /\ ManifestOf(archives'[last'.arch]) = ManifestOf(archives[last.arch])]_vars

(***************************************************************************)
(* C17, amended.  The same, for two runs that start in different clock     *)
(* seconds and in which the same files can be read: two archives with      *)
(* different filenames, whose MANIFEST.json map the same keys to the same  *)
(* values.                                                                 *)
(***************************************************************************)
TwiceSameManifestLater ==
    [][(/\ last.op = "backup" /\ last.rc = 0
        /\ last'.op = "backup" /\ last'.rc = 0
        /\ now' = now
        /\ files' = files
        /\ last.arch[2] # now
        /\ last'.ioHash = last.ioHash)
       => /\ last'.arch # last.arch
          /\ {last.arch, last'.arch} \subseteq DOMAIN archives'
          /\ ManifestOf(archives'[last'.arch]) = ManifestOf(archives[last.arch])
          /\ DOMAIN ManifestOf(archives'[last'.arch])
                = {last'.collected[i].arc : i \in 1..Len(last'.collected)}]_vars

TwiceWitness ==
    /\ last.op = "backup" /\ last.rc = 0
    /\ last.ioHash = {}
    /\ Cardinality(DOMAIN archives) = 2
    /\ \A n \in DOMAIN archives :
          /\ archives[n].ioHash = {}
          /\ ManifestOf(archives[n]) = ManifestOf(archives[last.arch])
          /\ Cardinality(DOMAIN ManifestOf(archives[n])) >= 5

\* the decision note of the vault, and whether an archive is a full backup
\* that collected it
NoteFile == <<"proj", "memory", "decisions", "2025-01-01-note.md">>

FullWithNote(a) ==
    /\ HasMember(a.members, MetaName)
    /\ \E i \in 1..Len(GetMember(a.members, MetaName).json) :
          GetMember(a.members, MetaName).json[i] = <<"label", <<"full">> >>
    /\ \E i \in 1..Len(a.src) : a.src[i].abs = NoteFile

StatedModeCategories(mode) ==
    CASE mode = "full" ->
            <<"memory", "people", "knowledge", "goals", "decisions",
              "playbooks", "threads", "config", "sessions">>
      [] mode = "memory" ->
            <<"memory", "people", "knowledge", "goals", "decisions",
              "playbooks", "threads">>
      [] mode = "sessions" -> <<"sessions">>

(***************************************************************************)
(* C19.  Mode resolution: a backup in mode full, memory or sessions        *)
(* collects what collect_files yields for, respectively, every registry    *)
(* category in registry order, the seven vault categories, and the         *)
(* sessions category alone; so a memory-mode collection has no path under  *)
(* sessions/ or config/ and a sessions-mode collection has only paths      *)
(* under sessions/.                                                        *)
(***************************************************************************)
ModeResolution ==
    (/\ last.op = "backup"
     /\ last.args.mode \in {"full", "memory", "sessions"}
     /\ last.args.since \in {"", "2025-01-02"})
    => /\ last.collected
            = collect_files(files, dirs,
                  IF last.args.base = NoPath THEN Proj ELSE last.args.base,
                  StatedModeCategories(last.args.mode),
                  SinceValue(last.args.since))
       /\ DOMAIN CATEGORIES = Range(StatedModeCategories("full"))
       /\ MODE_CATEGORIES["full"] = StatedModeCategories("full")
       /\ last.args.mode = "memory"
          => \A i \in 1..Len(last.collected) :
                Head(last.collected[i].arc) \notin {"sessions", "config"}
       /\ last.args.mode = "sessions"
          => \A i \in 1..Len(last.collected) :
                Head(last.collected[i].arc) = "sessions"

ModeResolutionWitness ==
    /\ last.op = "backup" /\ last.rc = 0
    /\ last.args.mode = "memory"
    /\ last.args.base = NoPath
    /\ Len(last.collected) >= 2
    /\ Sess1 \o <<"s1.jsonl">> \in DOMAIN files
    /\ OpenclawHome \o <<"config.json">> \in DOMAIN files

\* the files of the sessions directory, and which of them are session logs
SessionFiles ==
    {p \in DOMAIN files : Len(p) > Len(Sess1) /\ SubSeq(p, 1, Len(Sess1)) = Sess1}

IsSessionLog(p) == Last(p) = "s1.jsonl"

RotateNonPositiveNoOp ==
    [][(last'.op = "rotate" /\ last'.args.keep <= 0)
       => /\ archives' = archives
          /\ files' = files
          /\ dirs' = dirs
          /\ last'.removed = 0]_vars

RotateNonPositiveWitness ==
    /\ last.op = "rotate"
    /\ last.args.keep = 0
    /\ Cardinality(Matching(archives)) = MaxArchives
    /\ NotesName \in DOMAIN archives

(***************************************************************************)
(* C22.  A deletion that fails during rotation stops nothing: a completed  *)
(* backup run with keep >= 1 exits with status 0, leaves in place the      *)
(* archives whose deletion failed, and has deleted every other archive     *)
(* that at least keep archives are newer than.                             *)
(***************************************************************************)
RotationFailureTolerated ==
    [][(/\ last'.op = "backup"
        /\ last'.outcome = "complete"
        /\ last'.args.keep >= 1)
       => LET pre   == Matching(archives) \cup {last'.arch}
              mt(n) == IF n = last'.arch THEN now ELSE archives[n].mtime
              newer(n) == {s \in pre \ {n} : mt(s) > mt(n)}
          IN  /\ last'.rc = 0
              /\ \A n \in pre \ last'.delFail :
                    Cardinality(newer(n)) >= last'.args.keep
                    => n \notin DOMAIN archives'
              /\ \A n \in last'.delFail \cap DOMAIN archives :
                    n \in DOMAIN archives']_vars

RotationFailureWitness ==
    /\ last.op = "backup"
    /\ last.rc = 0
    /\ last.args.keep = 1
    /\ last.delFail = {ArchiveName(2)}
    /\ ArchiveName(2) \in DOMAIN archives
    /\ ArchiveName(1) \notin DOMAIN archives
    /\ last.arch \in DOMAIN archives
    /\ Cardinality(Matching(archives)) = 2

(***************************************************************************)
(* C23.  A verify invocation never mutates anything: whatever options      *)
(* accompany --verify, the invocation verifies and leaves the files, the   *)
(* directories and the archives of the output directory as they were (no   *)
(* archive created, no rotation, no restore).                              *)
(***************************************************************************)
VerifyMutatesNothing ==
    [][last'.verify # NoPath
       => /\ last'.op = "verify"
          /\ files' = files
          /\ dirs' = dirs
          /\ archives' = archives]_vars

\* the payload members a run that collected fs and failed to add ioAdd wrote
PackedArcs(fs, ioAdd) ==
    {fs[i].arc : i \in {j \in 1..Len(fs) : fs[j].abs \notin ioAdd}}

PayloadNames(a) ==
    {a.members[i].name : i \in {j \in 1..Len(a.members) :
                                   ~IsSynthetic(a.members[j].name)}}

\* the archive is the one the last run wrote, and nothing else
HoldsLastRun(a) ==
    /\ a.container = "tar"
    /\ PayloadNames(a) = PackedArcs(last.collected, last.ioAdd)
    /\ \A i \in 1..Len(a.members) :
          ~IsSynthetic(a.members[i].name)
          => \E j \in 1..Len(last.collected) :
                /\ last.collected[j].arc = a.members[i].name
                /\ a.members[i].data = files[last.collected[j].abs].data
    /\ Cardinality({i \in 1..Len(a.members) :
                       a.members[i].name = ManifestName}) = 1
    /\ DOMAIN ManifestOf(a)
          = {last.collected[j].arc : j \in 1..Len(last.collected)}
    /\ GetMember(a.members, MetaName).json[3] = <<"file_count", Len(last.collected)>>

(***************************************************************************)
(* C24, as stated.  Two backup invocations into the same output directory  *)
(* whose timestamps fall in the same second use the same archive name, and *)
(* afterwards the directory holds one archive under that name, containing  *)
(* the later run's members and manifest.                                   *)
(***************************************************************************)
SameSecondOverwrites ==
    (last.op \in {"backup", "overlap"} /\ last.rc = 0 /\ last.replaced)
    => /\ last.arch = ArchiveName(now)
       /\ Matching(archives) = {last.arch}
       /\ HoldsLastRun(archives[last.arch])

(***************************************************************************)
(* C24, amended.  The same for a run that starts after the earlier run of  *)
(* that second has ended: one archive under the common name, containing    *)
(* the later run's members and manifest and nothing of the earlier run.    *)
(***************************************************************************)
SameSecondSequentialOverwrites ==
    (last.op = "backup" /\ last.rc = 0 /\ last.replaced)
    => /\ last.arch = ArchiveName(now)
       /\ Matching(archives) = {last.arch}
       /\ HoldsLastRun(archives[last.arch])

SameSecondWitness ==
    /\ last.op = "backup" /\ last.rc = 0 /\ last.replaced
    /\ last.args.mode = "memory"
    /\ HoldsLastRun(archives[last.arch])
    /\ PayloadNames(archives[last.arch]) = {<<"memory", "goals.md">>}

MetaOf(a) == GetMember(a.members, MetaName).json

(***************************************************************************)
(* C25.  In every archive create_backup wrote, BACKUP_META.json's          *)
(* file_count is the number of collected files, which is the number of     *)
(* keys of MANIFEST.json, and its categories array holds, without          *)
(* duplicates, exactly the first segments of the collected archive paths.  *)
(***************************************************************************)
MetaDescribesCollection ==
    \A n \in DOMAIN archives :
        LET a    == archives[n]
            meta == MetaOf(a)
            cats == meta[4][2]
        IN  /\ meta[3] = <<"file_count", Len(a.src)>>
            /\ meta[3][2] = Cardinality(DOMAIN ManifestOf(a))
            /\ meta[4][1] = "categories"
            /\ Range(cats) = {Head(a.src[i].arc) : i \in 1..Len(a.src)}
            /\ \A i, j \in 1..Len(cats) : cats[i] = cats[j] => i = j

MetaDescribesWitness ==
    \E n \in DOMAIN archives :
        /\ MetaOf(archives[n])[3][2] = 6
        /\ Len(MetaOf(archives[n])[4][2]) = 3
        /\ archives[n].ioAdd # {}

(***************************************************************************)
(* C26.  In every archive create_backup wrote, the digest MANIFEST.json    *)
(* records for a path is the SHA-256 of the bytes stored in the member of  *)
(* that path, also when another process wrote the source file between the *)
(* hashing pass and the packing pass.                                      *)
(***************************************************************************)
ManifestMatchesMembers ==
    \A n \in DOMAIN archives :
        LET a == archives[n]
        IN  \A i \in 1..Len(a.members) :
                ~IsSynthetic(a.members[i].name)
                => ManifestOf(a)[a.members[i].name] = Sha256(a.members[i].data)

(***************************************************************************)
(* C27.  After a completed backup run with keep >= 1 the archive the run   *)
(* just created is still in the output directory, whatever archives were   *)
(* there before and whatever their modification times.                     *)
(***************************************************************************)
NewArchiveSurvivesRotation ==
    (last.op = "backup" /\ last.outcome = "complete" /\ last.args.keep >= 1)
    => last.arch \in DOMAIN archives

IsUnder(d, p) == p = d \/ IsPrefix(d, p)

\* inside the project base directory, the home configuration directory or
\* the resolved sessions directory
InsideRestoreRoots(D, p) ==
    \/ IsUnder(resolve_base_dir, p)
    \/ IsUnder(OpenclawHome, p)
    \/ resolve_sessions_dir(D) # NoPath /\ IsUnder(resolve_sessions_dir(D), p)

(***************************************************************************)
(* C28.  Whatever the member names of an archive (names with ".."          *)
(* segments, absolute names), every file restore writes and every          *)
(* directory it creates lies inside the project base directory, the home   *)
(* configuration directory or the resolved sessions directory.             *)
(***************************************************************************)
RestoreStaysInsideRoots ==
    [][last'.op = "restore"
       => /\ \A p \in DOMAIN files' :
                (p \notin DOMAIN files \/ files'[p] # files[p])
                => InsideRestoreRoots(dirs, p)
          /\ \A d \in dirs' \ dirs : InsideRestoreRoots(dirs, d)]_vars

Namespaces == {"memory", "config", "sessions"}

CountNamed(members, name) ==
    Cardinality({i \in 1..Len(members) : members[i].name = name})

(***************************************************************************)
(* C29.  Every archive path collect_files returns lies under memory/,      *)
(* config/ or sessions/, so none is MANIFEST.json or BACKUP_META.json, and *)
(* the archive a run writes holds exactly one member of each of these two  *)
(* names.                                                                  *)
(***************************************************************************)
CollectedPathsNamespaced ==
    last.op = "backup"
    => /\ \A i \in 1..Len(last.collected) :
             /\ Len(last.collected[i].arc) >= 2
             /\ Head(last.collected[i].arc) \in Namespaces
             /\ ~IsSynthetic(last.collected[i].arc)
       /\ (last.outcome = "complete" /\ last.arch \in DOMAIN archives)
          => /\ CountNamed(archives[last.arch].members, ManifestName) = 1
             /\ CountNamed(archives[last.arch].members, MetaName) = 1

CollectedPathsWitness ==
    /\ last.op = "backup"
    /\ last.outcome = "complete"
    /\ last.arch \in DOMAIN archives
    /\ {Head(last.collected[i].arc) : i \in 1..Len(last.collected)} = Namespaces
    /\ Len(archives[last.arch].members) = Len(last.collected) + 2

(***************************************************************************)
(* C30.  verify's result depends only on the manifest entries and the      *)
(* members they name: when a payload member that MANIFEST.json does not    *)
(* list is added to an archive that verifies successfully, verify still    *)
(* succeeds, with the same outcome and the same number of files OK.        *)
(***************************************************************************)
UnlistedMembersIgnored ==
    [][last'.op = "add"
       => \A n \in DOMAIN archives :
             verify_archive(archives, n).ok
             => verify_archive(archives', n) = verify_archive(archives, n)]_vars

UnlistedMembersWitness ==
    /\ last.op = "verify"
    /\ last.rc = 0
    /\ last.checked = 1
    /\ last.arch \in DOMAIN archives
    /\ archives[last.arch].changed = {[name |-> GoalsArc, was |-> 0]}
    /\ SessionArc \in ListedNames(archives[last.arch])

====
